---- MODULE Spec2Model ----
(***************************************************************************)
(* The wallet store of RPCServer/rpcwallet.py (class Wallet): account      *)
(* files sharded by the first two characters of the account name, the      *)
(* reverse index address_to_account and its file rindex.json, and the      *)
(* operations on them, run by several threads that share one Wallet.       *)
(*                                                                         *)
(* Every step of a handler is an operator from a world record w to the     *)
(* next one.  The interleaved specification Spec runs one step of one      *)
(* thread at a time; the sequential specification SeqSpec runs a whole     *)
(* handler, from its call to its return, as one action.                    *)
(***************************************************************************)
EXTENDS Integers, Sequences, FiniteSets, TLC

\* ------------------------------------------------------------------ bounds
NumThreads == 2      \* threads sharing the Wallet
MaxKeys == 3         \* calls of Key.generate in one behaviour
MaxCalls == 3        \* calls the threads make in one behaviour of Spec
MaxEvents == 1       \* openings, removals and failed writes in one of EnvSpec

Threads == 1..NumThreads

\* ------------------------------------------------------------ the inputs
\* account names the threads of Spec call with
Names == {"", "default", "ab"}

\* a name of 129 characters
LongName == "aaaaaaaaaaaaaaaaaaaaaaaaaaaaaaaaaaaaaaaaaaaaaaaaaaaaaaaaaaaaaaaaaaaaaaaaaaaaaaaaaaaaaaaaaaaaaaaaaaaaaaaaaaaaaaaaaaaaaaaaaaaaaaaaaaaaaaaaa"

\* account names of the sequential calls: the default account under both its
\* names, sharded accounts, a name with a slash, and names
\* _check_account_name refuses
SeqNames == {"", "default", "ab", "index", "a/b", "a", "a=b", LongName}

Addresses == 1..MaxKeys

AllNames == Names \cup SeqNames

\* --------------------------------------------------------------- strings
Min(a, b) == IF a < b THEN a ELSE b

\* s[i-1:i], the i-th character of s as a string of length one
Ch(s, i) == SubSeq(s, i, i)

\* the class [a-zA-Z0-9\+\/] of the regular expression of _check_account_name
B64 == "abcdefghijklmnopqrstuvwxyzABCDEFGHIJKLMNOPQRSTUVWXYZ0123456789+/"
B64Chars == {Ch(B64, i) : i \in 1..Len(B64)}

UpperAZ == "ABCDEFGHIJKLMNOPQRSTUVWXYZ"
LowerAZ == "abcdefghijklmnopqrstuvwxyz"

\* the lower case letter of each upper case one
ToLower ==
    [c \in {Ch(UpperAZ, i) : i \in 1..Len(UpperAZ)} |->
        Ch(LowerAZ, CHOOSE i \in 1..Len(UpperAZ) : Ch(UpperAZ, i) = c)]

\* str.lower(), character by character
RECURSIVE lower(_)
lower(s) ==
    IF s = "" THEN ""
    ELSE LET c == Ch(s, 1)
         IN (IF c \in DOMAIN ToLower THEN ToLower[c] ELSE c)
            \o lower(SubSeq(s, 2, Len(s)))

\* os.path.splitext: the extension starts at the last dot, leading dots aside
splitext(afile) ==
    LET lead == IF \E i \in 1..Len(afile) : Ch(afile, i) # "."
                THEN (CHOOSE i \in 1..Len(afile) :
                        Ch(afile, i) # "." /\ \A j \in 1..(i-1) : Ch(afile, j) = ".")
                ELSE Len(afile) + 1
        dots == {i \in (lead + 1)..Len(afile) : Ch(afile, i) = "."}
    IN IF dots = {} THEN <<afile, "">>
       ELSE LET d == CHOOSE i \in dots : \A j \in dots : j <= i
            IN <<SubSeq(afile, 1, d - 1), SubSeq(afile, d, Len(afile))>>

\* account[:2]
Prefix2(account) == SubSeq(account, 1, Min(2, Len(account)))

\* The components of a path written below self.path: the pieces between the
\* slashes, empty ones dropped as the filesystem drops them ("//a" is "/a").
RECURSIVE SplitPath(_, _, _, _)
SplitPath(s, i, cur, acc) ==
    IF i > Len(s) THEN (IF cur = "" THEN acc ELSE Append(acc, cur))
    ELSE IF Ch(s, i) = "/"
         THEN SplitPath(s, i + 1, "", IF cur = "" THEN acc ELSE Append(acc, cur))
         ELSE SplitPath(s, i + 1, cur \o Ch(s, i), acc)

PathOf(s) == SplitPath(s, 1, "", <<>>)

Parent(p) == SubSeq(p, 1, Len(p) - 1)

\* A set as a sequence, in a fixed order: a directory listing is in no
\* specified order, and the same for the same directory.
RECURSIVE SetToSeq(_)
SetToSeq(S) ==
    IF S = {} THEN <<>>
    ELSE LET x == CHOOSE y \in S : TRUE IN <<x>> \o SetToSeq(S \ {x})

\* -------------------------------------------------------------- the files
\* fs.dirs: the directories below self.path (<<>> is self.path itself);
\* fs.files: path |-> content, the sequence of JSON documents written to the
\* file (open(.., 'w') and one json.dump leave exactly one).
exists(fs, p) == p \in fs.dirs \/ p \in DOMAIN fs.files

isfile(fs, p) == p \in DOMAIN fs.files

\* os.mkdir: "" when done, else the error raised
mkdir_error(fs, p) ==
    IF exists(fs, p) THEN "FileExistsError"
    ELSE IF p # <<>> /\ Parent(p) \notin fs.dirs THEN "FileNotFoundError"
    ELSE ""

mkdir(fs, p) == [fs EXCEPT !.dirs = @ \cup {p}]

\* open(fname, 'w'): "" when it opens, else the error raised
open_w_error(fs, p) ==
    IF p \in fs.dirs THEN "IsADirectoryError"
    ELSE IF Parent(p) \notin fs.dirs THEN "FileNotFoundError"
    ELSE ""

\* with open(fname, 'w') as outfile: json.dump(doc, outfile)
dump(fs, p, doc) ==
    [fs EXCEPT !.files = (p :> <<doc>>) @@ @]

\* json.load of an existing file: one document, or a ValueError
loadable(fs, p) == Len(fs.files[p]) = 1
load_json(fs, p) == fs.files[p][1]

IndexFname == <<"index.json">>
RindexFname == <<"rindex.json">>

\* --------------------------------------------------------------- the keys
\* rpckeys.Key: generate() makes a new key pair and keeps it in the one Key
\* instance of the wallet; address and as_list read that instance.
NoKey == [address |-> 0, count |-> 0]

\* Key(verbose): a new instance, with no key pair yet; count goes on, since
\* no address is generated twice
Key(key) == [address |-> 0, count |-> key.count]

generate(key) == [address |-> key.count + 1, count |-> key.count + 1]

as_list(key) == <<key.address, <<"privkey", key.address>>, <<"pubkey", key.address>>>>

\* ------------------------------------------------------ _check_account_name
MinNameLen == 2
MaxNameLen == 128

\* a wrong _check_account_name, with the lower length limit off by one: it
\* admits the names of one character
_check_account_name_short(account) ==
    IF account = "" THEN ""
    ELSE IF Len(account) < MinNameLen - 1 \/ Len(account) > MaxNameLen
         THEN "InvalidAccountName"
    ELSE IF \E i \in 1..Len(account) : Ch(account, i) \notin B64Chars
         THEN "InvalidAccountName"
    ELSE ""

\* "" when the name complies, else the exception raised
_check_account_name(account) ==
    IF account = "" THEN ""
    ELSE IF Len(account) < MinNameLen \/ Len(account) > MaxNameLen
         THEN "InvalidAccountName"
    ELSE IF \E i \in 1..Len(account) : Ch(account, i) \notin B64Chars
         THEN "InvalidAccountName"
    ELSE ""

\* _check_account_name of every name of the model, computed once
CheckedName == [account \in AllNames |-> _check_account_name(account)]

\* ----------------------------------------------------------------- state
VARIABLES
    fs,                  \* the wallet directory: [dirs, files]
    address_to_account,  \* self.address_to_account: address |-> account name
    key,                 \* self.key, the one Key instance all threads use
    index,               \* self.index: the primary index, <<>> while it is None
    th,                  \* th[t]: where thread t is in its handler, its locals,
                         \* and what its last call returned or raised
    calls                \* the calls the threads have made in Spec; in EnvSpec,
                         \* the openings, removals and failed writes so far

vars == <<fs, address_to_account, key, index, th, calls>>

\* the state as one record, for the step operators
W == [fs |-> fs, address_to_account |-> address_to_account, key |-> key,
      index |-> index, th |-> th]

Set(w) ==
    /\ fs' = w.fs
    /\ address_to_account' = w.address_to_account
    /\ key' = w.key
    /\ index' = w.index
    /\ th' = w.th

EmptyMap == [a \in {} |-> ""]

\* a thread outside any handler; ret and err keep the outcome of its last call
Idle == [pc |-> "idle", op |-> "", arg |-> <<>>, account |-> "", res |-> <<>>,
         todo |-> <<>>, ret |-> <<>>, err |-> ""]

Goto(w, t, label) == [w EXCEPT !.th[t].pc = label]

\* return v
Return(w, t, v) ==
    [w EXCEPT !.th[t] = [Idle EXCEPT !.op = w.th[t].op, !.arg = w.th[t].arg,
                                     !.ret = <<v>>]]

\* raise e; _get_keys_for_address, which dump_privkey calls, turns every
\* exception of its body into UnknownnAddress (lines 242-252)
Raise(w, t, e) ==
    [w EXCEPT !.th[t] = [Idle EXCEPT !.op = w.th[t].op, !.arg = w.th[t].arg,
                                     !.err = IF w.th[t].op \in {"_get_keys_for_address",
                                                                "dump_privkey"}
                                             THEN "UnknownnAddress" ELSE e]]

\* ---------------------------------------------------------- __init__, load
\* load() in a directory with no index.json: the default index and an empty
\* reverse index are written when verbose is set, and nothing is otherwise.
load_fresh(verbose) ==
    LET fs0 == [dirs |-> {<<>>}, files |-> [p \in {} |-> <<>>]]
    IN IF verbose
       THEN dump(dump(fs0, IndexFname, [version |-> "0.0.3", encrypted |-> FALSE]),
                 RindexFname, EmptyMap)
       ELSE fs0

\* ------------------------------------------------------------ _save_rindex
\* a wrong _save_rindex, which opens rindex.json with 'a' and not 'w': the
\* document is written after what the file already holds
_save_rindex_append(w) ==
    LET old == IF RindexFname \in DOMAIN w.fs.files
               THEN w.fs.files[RindexFname] ELSE <<>>
    IN [w EXCEPT !.fs.files =
            (RindexFname :> Append(old, w.address_to_account)) @@ @]

\* lines 133-136: the reverse index overwrites rindex.json
_save_rindex(w) ==
    [w EXCEPT !.fs = dump(w.fs, RindexFname, w.address_to_account)]

\* line 135: "" when rindex.json opens for writing, else the error raised
_save_rindex_error(w) == open_w_error(w.fs, RindexFname)

\* load, lines 62-81, on the directory as it is
load(w, verbose) ==
    IF ~exists(w.fs, IndexFname)
    THEN IF verbose
         THEN LET doc == [version |-> "0.0.3", encrypted |-> FALSE]
                  e == open_w_error(w.fs, IndexFname)
                  w1 == [w EXCEPT !.index = <<doc>>,
                                  !.fs = dump(w.fs, IndexFname, doc),
                                  !.address_to_account = EmptyMap]
              IN IF e # "" THEN [w |-> [w EXCEPT !.index = <<doc>>], err |-> e]
                 ELSE IF _save_rindex_error(w1) # ""
                      THEN [w |-> w1, err |-> _save_rindex_error(w1)]
                 ELSE [w |-> _save_rindex(w1), err |-> ""]
         ELSE [w |-> w, err |-> ""]
    ELSE IF ~isfile(w.fs, IndexFname) THEN [w |-> w, err |-> "IsADirectoryError"]
    ELSE IF ~loadable(w.fs, IndexFname) THEN [w |-> w, err |-> "ValueError"]
    ELSE LET w1 == [w EXCEPT !.index = <<load_json(w.fs, IndexFname)>>]
         IN IF isfile(w.fs, RindexFname) /\ loadable(w.fs, RindexFname)
            THEN [w |-> [w1 EXCEPT !.address_to_account = load_json(w.fs, RindexFname)],
                  err |-> ""]
            ELSE [w |-> [w1 EXCEPT !.address_to_account = EmptyMap], err |-> ""]

\* -------------------------------------------------------------- the paths
\* lines 159-165: path and fname of _get_account, below self.path
_get_account_path(account) ==
    IF account = "" \/ account = "default" THEN PathOf("")
    ELSE PathOf("/" \o Prefix2(account))

_get_account_fname(account) ==
    IF account = "" \/ account = "default" THEN PathOf("/default.json")
    ELSE PathOf("/" \o Prefix2(account) \o "/" \o account \o ".json")

\* lines 192-198: path and fname of _save_account
_save_account_path(account) ==
    IF account = "" THEN PathOf("")
    ELSE PathOf("/" \o Prefix2(account))

_save_account_fname(account) ==
    IF account = "" THEN PathOf("/default.json")
    ELSE PathOf("/" \o Prefix2(account) \o "/" \o account \o ".json")

\* the paths of every name that passes the check, computed once
Complying == {account \in AllNames : CheckedName[account] = ""}

PathsOf ==
    [account \in Complying |->
        [get_path |-> _get_account_path(account),
         get_fname |-> _get_account_fname(account),
         save_path |-> _save_account_path(account),
         save_fname |-> _save_account_fname(account)]]

\* ---------------------------------------------------------- _parse_accounts
\* lines 92-97: a file the walk parses: a .json file that is not an index
is_account_file(afile) ==
    /\ lower(splitext(afile)[2]) = ".json"
    /\ lower(afile) \notin {"index.json", "rindex.json"}

\* lines 103-105: the account a file is yielded as
parsed_account(afile) ==
    LET account == splitext(afile)[1]
    IN IF account = "default" THEN "" ELSE account

\* the file names of the model, and what the walk makes of each, computed once
FileNames ==
    {"index.json", "rindex.json"}
        \cup {PathsOf[a].get_fname[Len(PathsOf[a].get_fname)] : a \in Complying}
        \cup {PathsOf[a].save_fname[Len(PathsOf[a].save_fname)] : a \in Complying}

Parsed ==
    [afile \in FileNames |->
        [is_account_file |-> is_account_file(afile), account |-> parsed_account(afile)]]

RECURSIVE Flatten(_)
Flatten(ss) == IF ss = <<>> THEN <<>> ELSE Head(ss) \o Flatten(Tail(ss))

\* os.walk(self.path), top down: the files of a directory, then its
\* subdirectories one after the other
RECURSIVE walk(_, _)
walk(f, d) ==
    LET files == {p \in DOMAIN f.files : Parent(p) = d}
        subdirs == {p \in f.dirs : p # <<>> /\ Parent(p) = d}
        subs == SetToSeq(subdirs)
    IN SetToSeq(files) \o Flatten([i \in 1..Len(subs) |-> walk(f, subs[i])])

\* the files of the walk that _parse_accounts goes on to open
account_files(f) ==
    SelectSeq(walk(f, <<>>), LAMBDA p : Parsed[p[Len(p)]].is_account_file)

\* lines 99-109: the file is read and parsed; a file that does not parse is
\* skipped
yields(f, p) == isfile(f, p) /\ loadable(f, p)

\* lines 119-124: the addresses of one yielded account go into the index
RECURSIVE register_all(_, _, _)
register_all(map, addresses, account_name) ==
    IF addresses = <<>> THEN map
    ELSE register_all((Head(addresses)[1] :> account_name) @@ map,
                      Tail(addresses), account_name)

reindex_account(map, f, p) ==
    IF ~yields(f, p) THEN map
    ELSE LET account_details == load_json(f, p)
         IN IF "addresses" \in DOMAIN account_details
            THEN register_all(map, account_details.addresses,
                              Parsed[p[Len(p)]].account)
            ELSE map

\* ------------------------------------------------------------ the handlers
\* Where a handler goes on once _get_account has returned res:
\*   get_account_address      lines 212-215
\*   get_addresses_by_account line 283
\*   get_new_address          line 267, then 268
\*   _get_keys_for_address    lines 246-250
\*   dump_privkey             lines 246-250, then 260
\* First a wrong one, without the raise of line 250: the loop of
\* _get_keys_for_address that finds no entry falls through and returns None.
after_get_account_no_raise(w, t, res) ==
    LET l == w.th[t]
        hits == {i \in 1..Len(res.addresses) : res.addresses[i][1] = l.arg[1]}
        keys == res.addresses[CHOOSE i \in hits : \A j \in hits : i <= j]
    IN CASE l.op = "get_account_address" ->
              IF res.addresses = <<>> THEN Raise(w, t, "IndexError")
              ELSE Return(w, t, res.addresses[1][1])
         [] l.op = "get_addresses_by_account" ->
              Return(w, t, [i \in 1..Len(res.addresses) |-> res.addresses[i][1]])
         [] l.op = "get_new_address" ->
              [w EXCEPT !.th[t].res = <<res>>, !.th[t].pc = "get_new_address_generate"]
         [] l.op = "_get_keys_for_address" ->
              IF hits = {} THEN Return(w, t, <<>>) ELSE Return(w, t, keys)
         [] l.op = "dump_privkey" ->
              IF hits = {} THEN Raise(w, t, "UnknownnAddress") ELSE Return(w, t, keys[3])

after_get_account(w, t, res) ==
    LET l == w.th[t]
    IN CASE l.op = "get_account_address" ->
              IF res.addresses = <<>> THEN Raise(w, t, "IndexError")
              ELSE Return(w, t, res.addresses[1][1])
         [] l.op = "get_addresses_by_account" ->
              Return(w, t, [i \in 1..Len(res.addresses) |-> res.addresses[i][1]])
         [] l.op = "get_new_address" ->
              [w EXCEPT !.th[t].res = <<res>>, !.th[t].pc = "get_new_address_generate"]
         [] l.op = "_get_keys_for_address" ->
              LET hits == {i \in 1..Len(res.addresses) : res.addresses[i][1] = l.arg[1]}
              IN IF hits = {} THEN Raise(w, t, "UnknownnAddress")
                 ELSE Return(w, t, res.addresses[CHOOSE i \in hits : \A j \in hits : i <= j])
         [] l.op = "dump_privkey" ->
              \* lines 259-260: keys[2] of what _get_keys_for_address returns
              LET hits == {i \in 1..Len(res.addresses) : res.addresses[i][1] = l.arg[1]}
              IN IF hits = {} THEN Raise(w, t, "UnknownnAddress")
                 ELSE Return(w, t, res.addresses[CHOOSE i \in hits : \A j \in hits : i <= j][3])

\* _get_account, lines 158-166 and 181-183: the name is checked, the file
\* looked for, and read when it is there
_get_account_open(w, t) ==
    LET l == w.th[t]
        e == CheckedName[l.account]
        fname == PathsOf[l.account].get_fname
    IN IF e # "" THEN Raise(w, t, e)
       ELSE IF ~isfile(w.fs, fname) THEN Goto(w, t, "_get_account_generate")
       ELSE IF ~loadable(w.fs, fname) THEN Raise(w, t, "ValueError")
       ELSE after_get_account(w, t, load_json(w.fs, fname))

\* line 170
_get_account_generate(w, t) ==
    [Goto(w, t, "_get_account_as_list") EXCEPT !.key = generate(w.key)]

\* line 171
_get_account_as_list(w, t) ==
    [w EXCEPT !.th[t].res = <<[encrypted |-> FALSE, addresses |-> <<as_list(w.key)>>]>>,
              !.th[t].pc = "_get_account_exists"]

\* line 173
_get_account_exists(w, t) ==
    IF exists(w.fs, PathsOf[w.th[t].account].get_path)
    THEN Goto(w, t, "_get_account_dump")
    ELSE Goto(w, t, "_get_account_mkdir")

\* line 174
_get_account_mkdir(w, t) ==
    LET path == PathsOf[w.th[t].account].get_path
        e == mkdir_error(w.fs, path)
    IN IF e # "" THEN Raise(w, t, e)
       ELSE [Goto(w, t, "_get_account_dump") EXCEPT !.fs = mkdir(w.fs, path)]

\* lines 175-176
_get_account_dump(w, t) ==
    LET fname == PathsOf[w.th[t].account].get_fname
        e == open_w_error(w.fs, fname)
    IN IF e # "" THEN Raise(w, t, e)
       ELSE [Goto(w, t, "_get_account_register")
               EXCEPT !.fs = dump(w.fs, fname, w.th[t].res[1])]

\* line 178
_get_account_register(w, t) ==
    [Goto(w, t, "_get_account_save_rindex")
       EXCEPT !.address_to_account = (w.key.address :> w.th[t].account) @@ @]

\* lines 179 and 183
_get_account_save_rindex(w, t) ==
    IF _save_rindex_error(w) # "" THEN Raise(w, t, _save_rindex_error(w))
    ELSE after_get_account(_save_rindex(w), t, w.th[t].res[1])

\* get_new_address, line 268
get_new_address_generate(w, t) ==
    [Goto(w, t, "get_new_address_append") EXCEPT !.key = generate(w.key)]

\* line 270
get_new_address_append(w, t) ==
    [w EXCEPT !.th[t].res[1].addresses = Append(@, as_list(w.key)),
              !.th[t].pc = "_save_account_open"]

\* _save_account, lines 191-199
_save_account_open(w, t) ==
    LET l == w.th[t]
        e == CheckedName[l.account]
    IN IF e # "" THEN Raise(w, t, e)
       ELSE IF exists(w.fs, PathsOf[l.account].save_path)
            THEN Goto(w, t, "_save_account_dump")
            ELSE Goto(w, t, "_save_account_mkdir")

\* line 200
_save_account_mkdir(w, t) ==
    LET path == PathsOf[w.th[t].account].save_path
        e == mkdir_error(w.fs, path)
    IN IF e # "" THEN Raise(w, t, e)
       ELSE [Goto(w, t, "_save_account_dump") EXCEPT !.fs = mkdir(w.fs, path)]

\* lines 201-204, and back in get_new_address at line 272
_save_account_dump(w, t) ==
    LET l == w.th[t]
        fname == PathsOf[l.account].save_fname
        e == open_w_error(w.fs, fname)
        w2 == [w EXCEPT !.fs = dump(w.fs, fname, l.res[1])]
    IN IF e # "" THEN Raise(w, t, e)
       ELSE IF l.op = "get_new_address" THEN Goto(w2, t, "get_new_address_register")
       ELSE Return(w2, t, TRUE)

\* a wrong line 273, which leaves the reverse index as it is
get_new_address_register_skipped(w, t) ==
    Goto(w, t, "get_new_address_save_rindex")

\* line 273
get_new_address_register(w, t) ==
    [Goto(w, t, "get_new_address_save_rindex")
       EXCEPT !.address_to_account = (w.key.address :> w.th[t].account) @@ @]

\* line 274
get_new_address_save_rindex(w, t) ==
    IF _save_rindex_error(w) # "" THEN Raise(w, t, _save_rindex_error(w))
    ELSE Goto(_save_rindex(w), t, "get_new_address_return")

\* line 275
get_new_address_return(w, t) == Return(w, t, w.key.address)

\* get_account, lines 222-225
get_account_lookup(w, t) ==
    LET address == w.th[t].arg[1]
    IN IF address \in DOMAIN w.address_to_account
       THEN Return(w, t, w.address_to_account[address])
       ELSE Raise(w, t, "UnknownnAddress")

\* list_accounts, lines 233-237: the names the walk yields
list_accounts_walk(w, t) ==
    LET ps == account_files(w.fs)
    IN Return(w, t, {Parsed[ps[i][Len(ps[i])]].account :
                       i \in {j \in 1..Len(ps) : yields(w.fs, ps[j])}})

\* _get_keys_for_address, lines 243-244: the account of the address, then
\* _get_account of that account
_get_keys_for_address_lookup(w, t) ==
    LET address == w.th[t].arg[1]
    IN IF address \in DOMAIN w.address_to_account
       THEN [w EXCEPT !.th[t].account = w.address_to_account[address],
                      !.th[t].pc = "_get_account_open"]
       ELSE Raise(w, t, "UnknownnAddress")

\* reindex, line 118; res keeps the mapping that line 118 drops, which the
\* code keeps nowhere, for the properties that speak of it
reindex_clear(w, t) ==
    [w EXCEPT !.address_to_account = EmptyMap,
              !.th[t].res = <<w.address_to_account>>,
              !.th[t].pc = "_parse_accounts_walk"]

\* _parse_accounts, lines 89-97: the files to parse
_parse_accounts_walk(w, t) ==
    LET ps == account_files(w.fs)
    IN [w EXCEPT !.th[t].todo = ps,
                 !.th[t].pc = IF ps = <<>> THEN "reindex_save_rindex"
                              ELSE "_parse_accounts_file"]

\* lines 99-106 and 119-124: the next file is read and its addresses indexed
_parse_accounts_file(w, t) ==
    LET todo == w.th[t].todo
    IN [w EXCEPT !.address_to_account = reindex_account(@, w.fs, Head(todo)),
                 !.th[t].todo = Tail(todo),
                 !.th[t].pc = IF Tail(todo) = <<>> THEN "reindex_save_rindex"
                              ELSE "_parse_accounts_file"]

\* lines 125-126
reindex_save_rindex(w, t) ==
    IF _save_rindex_error(w) # "" THEN Raise(w, t, _save_rindex_error(w))
    ELSE Return(_save_rindex(w), t, TRUE)

\* Wallet(path, verbose), lines 36-54, on the directory as it is: the
\* attributes are set, the directory is made when it is missing and verbose
\* is set, the Key instance is made, and load() is run
__init__(w, t) ==
    LET verbose == w.th[t].arg[1]
        w0 == [w EXCEPT !.address_to_account = EmptyMap, !.index = <<>>]
        w1 == IF ~exists(w0.fs, <<>>) /\ verbose
              THEN [w0 EXCEPT !.fs = mkdir(w0.fs, <<>>)] ELSE w0
        w2 == [w1 EXCEPT !.key = Key(w1.key)]
        l == load(w2, verbose)
    IN IF l.err # "" THEN Raise(l.w, t, l.err) ELSE Return(l.w, t, TRUE)

\* one step of thread t, by where it is
Step(w, t) ==
    LET pc == w.th[t].pc
    IN CASE pc = "_get_account_open" -> _get_account_open(w, t)
         [] pc = "_get_account_generate" -> _get_account_generate(w, t)
         [] pc = "_get_account_as_list" -> _get_account_as_list(w, t)
         [] pc = "_get_account_exists" -> _get_account_exists(w, t)
         [] pc = "_get_account_mkdir" -> _get_account_mkdir(w, t)
         [] pc = "_get_account_dump" -> _get_account_dump(w, t)
         [] pc = "_get_account_register" -> _get_account_register(w, t)
         [] pc = "_get_account_save_rindex" -> _get_account_save_rindex(w, t)
         [] pc = "get_new_address_generate" -> get_new_address_generate(w, t)
         [] pc = "get_new_address_append" -> get_new_address_append(w, t)
         [] pc = "_save_account_open" -> _save_account_open(w, t)
         [] pc = "_save_account_mkdir" -> _save_account_mkdir(w, t)
         [] pc = "_save_account_dump" -> _save_account_dump(w, t)
         [] pc = "get_new_address_register" -> get_new_address_register(w, t)
         [] pc = "get_new_address_save_rindex" -> get_new_address_save_rindex(w, t)
         [] pc = "get_new_address_return" -> get_new_address_return(w, t)
         [] pc = "get_account_lookup" -> get_account_lookup(w, t)
         [] pc = "list_accounts_walk" -> list_accounts_walk(w, t)
         [] pc = "_get_keys_for_address_lookup" -> _get_keys_for_address_lookup(w, t)
         [] pc = "reindex_clear" -> reindex_clear(w, t)
         [] pc = "_parse_accounts_walk" -> _parse_accounts_walk(w, t)
         [] pc = "_parse_accounts_file" -> _parse_accounts_file(w, t)
         [] pc = "reindex_save_rindex" -> reindex_save_rindex(w, t)
         [] pc = "__init__" -> __init__(w, t)

\* the first step of each handler
Entry(op) ==
    CASE op \in {"get_account_address", "get_new_address",
                 "get_addresses_by_account"} -> "_get_account_open"
      [] op = "_save_account" -> "_save_account_open"
      [] op = "get_account" -> "get_account_lookup"
      [] op = "list_accounts" -> "list_accounts_walk"
      [] op \in {"_get_keys_for_address", "dump_privkey"} ->
            "_get_keys_for_address_lookup"
      [] op = "__init__" -> "__init__"
      [] op = "reindex" -> "reindex_clear"

\* thread t calls op(arg); account holds the account name of the handlers
\* that take one, res the dict handed to _save_account
Begin(w, t, op, arg, account, res) ==
    [w EXCEPT !.th[t] = [Idle EXCEPT !.pc = Entry(op), !.op = op, !.arg = arg,
                                     !.account = account, !.res = res]]

\* a handler run from its call to its return
RECURSIVE Run(_, _)
Run(w, t) == IF w.th[t].pc = "idle" THEN w ELSE Run(Step(w, t), t)

\* a handler run from where it is up to the step label, or to its return
RECURSIVE RunTo(_, _, _)
RunTo(w, t, label) ==
    IF w.th[t].pc \in {"idle", label} THEN w ELSE RunTo(Step(w, t), t, label)

\* --------------------------------------------------------------- Init
\* the wallet made by Wallet(path, verbose) in an empty directory
NewWallet(verbose) ==
    /\ fs = load_fresh(verbose)
    /\ address_to_account = EmptyMap
    /\ key = NoKey
    /\ index = IF verbose THEN <<[version |-> "0.0.3", encrypted |-> FALSE]>> ELSE <<>>
    /\ th = [t \in Threads |-> Idle]
    /\ calls = 0

Init == NewWallet(TRUE)

SeqInit == \E verbose \in BOOLEAN : NewWallet(verbose)

\* ------------------------------------------------- Spec: interleaved steps
\* A thread outside any handler calls one.
Call_get_account_address(t) ==
    \E anaccount \in Names :
        /\ th[t].pc = "idle"
        /\ calls < MaxCalls
        /\ calls' = calls + 1
        /\ Set(Begin(W, t, "get_account_address", <<anaccount>>, anaccount, <<>>))

Call_get_new_address(t) ==
    \E anaccount \in Names :
        /\ th[t].pc = "idle"
        /\ calls < MaxCalls
        /\ calls' = calls + 1
        /\ Set(Begin(W, t, "get_new_address", <<anaccount>>, anaccount, <<>>))

Call_get_addresses_by_account(t) ==
    \E anaccount \in Names :
        /\ th[t].pc = "idle"
        /\ calls < MaxCalls
        /\ calls' = calls + 1
        /\ Set(Begin(W, t, "get_addresses_by_account", <<anaccount>>, anaccount, <<>>))

Call_get_account(t) ==
    \E address \in Addresses :
        /\ th[t].pc = "idle"
        /\ calls < MaxCalls
        /\ calls' = calls + 1
        /\ Set(Begin(W, t, "get_account", <<address>>, "", <<>>))

Call_get_keys_for_address(t) ==
    \E address \in Addresses :
        /\ th[t].pc = "idle"
        /\ calls < MaxCalls
        /\ calls' = calls + 1
        /\ Set(Begin(W, t, "_get_keys_for_address", <<address>>, "", <<>>))

Call_list_accounts(t) ==
    /\ th[t].pc = "idle"
    /\ calls < MaxCalls
    /\ calls' = calls + 1
    /\ Set(Begin(W, t, "list_accounts", <<>>, "", <<>>))

Call_reindex(t) ==
    /\ th[t].pc = "idle"
    /\ calls < MaxCalls
    /\ calls' = calls + 1
    /\ Set(Begin(W, t, "reindex", <<>>, "", <<>>))

\* A thread inside a handler takes the step it is at.  Key.generate is called
\* at most MaxKeys times.
Do_get_account_open(t) ==
    /\ th[t].pc = "_get_account_open"
    /\ UNCHANGED calls
    /\ Set(_get_account_open(W, t))

Do_get_account_generate(t) ==
    /\ th[t].pc = "_get_account_generate"
    /\ UNCHANGED calls
    /\ key.count < MaxKeys
    /\ Set(_get_account_generate(W, t))

Do_get_account_as_list(t) ==
    /\ th[t].pc = "_get_account_as_list"
    /\ UNCHANGED calls
    /\ Set(_get_account_as_list(W, t))

Do_get_account_exists(t) ==
    /\ th[t].pc = "_get_account_exists"
    /\ UNCHANGED calls
    /\ Set(_get_account_exists(W, t))

Do_get_account_mkdir(t) ==
    /\ th[t].pc = "_get_account_mkdir"
    /\ UNCHANGED calls
    /\ Set(_get_account_mkdir(W, t))

Do_get_account_dump(t) ==
    /\ th[t].pc = "_get_account_dump"
    /\ UNCHANGED calls
    /\ Set(_get_account_dump(W, t))

Do_get_account_register(t) ==
    /\ th[t].pc = "_get_account_register"
    /\ UNCHANGED calls
    /\ Set(_get_account_register(W, t))

Do_get_account_save_rindex(t) ==
    /\ th[t].pc = "_get_account_save_rindex"
    /\ UNCHANGED calls
    /\ Set(_get_account_save_rindex(W, t))

Do_get_new_address_generate(t) ==
    /\ th[t].pc = "get_new_address_generate"
    /\ UNCHANGED calls
    /\ key.count < MaxKeys
    /\ Set(get_new_address_generate(W, t))

Do_get_new_address_append(t) ==
    /\ th[t].pc = "get_new_address_append"
    /\ UNCHANGED calls
    /\ Set(get_new_address_append(W, t))

Do_save_account_open(t) ==
    /\ th[t].pc = "_save_account_open"
    /\ UNCHANGED calls
    /\ Set(_save_account_open(W, t))

Do_save_account_mkdir(t) ==
    /\ th[t].pc = "_save_account_mkdir"
    /\ UNCHANGED calls
    /\ Set(_save_account_mkdir(W, t))

Do_save_account_dump(t) ==
    /\ th[t].pc = "_save_account_dump"
    /\ UNCHANGED calls
    /\ Set(_save_account_dump(W, t))

Do_get_new_address_register(t) ==
    /\ th[t].pc = "get_new_address_register"
    /\ UNCHANGED calls
    /\ Set(get_new_address_register(W, t))

Do_get_new_address_save_rindex(t) ==
    /\ th[t].pc = "get_new_address_save_rindex"
    /\ UNCHANGED calls
    /\ Set(get_new_address_save_rindex(W, t))

Do_get_new_address_return(t) ==
    /\ th[t].pc = "get_new_address_return"
    /\ UNCHANGED calls
    /\ Set(get_new_address_return(W, t))

Do_get_account_lookup(t) ==
    /\ th[t].pc = "get_account_lookup"
    /\ UNCHANGED calls
    /\ Set(get_account_lookup(W, t))

Do_list_accounts_walk(t) ==
    /\ th[t].pc = "list_accounts_walk"
    /\ UNCHANGED calls
    /\ Set(list_accounts_walk(W, t))

Do_get_keys_for_address_lookup(t) ==
    /\ th[t].pc = "_get_keys_for_address_lookup"
    /\ UNCHANGED calls
    /\ Set(_get_keys_for_address_lookup(W, t))

Do_reindex_clear(t) ==
    /\ th[t].pc = "reindex_clear"
    /\ UNCHANGED calls
    /\ Set(reindex_clear(W, t))

Do_parse_accounts_walk(t) ==
    /\ th[t].pc = "_parse_accounts_walk"
    /\ UNCHANGED calls
    /\ Set(_parse_accounts_walk(W, t))

Do_parse_accounts_file(t) ==
    /\ th[t].pc = "_parse_accounts_file"
    /\ UNCHANGED calls
    /\ Set(_parse_accounts_file(W, t))

Do_reindex_save_rindex(t) ==
    /\ th[t].pc = "reindex_save_rindex"
    /\ UNCHANGED calls
    /\ Set(reindex_save_rindex(W, t))

Next ==
    \E t \in Threads :
        \/ Call_get_account_address(t)
        \/ Call_get_new_address(t)
        \/ Call_get_addresses_by_account(t)
        \/ Call_get_account(t)
        \/ Call_get_keys_for_address(t)
        \/ Call_list_accounts(t)
        \/ Call_reindex(t)
        \/ Do_get_account_open(t)
        \/ Do_get_account_generate(t)
        \/ Do_get_account_as_list(t)
        \/ Do_get_account_exists(t)
        \/ Do_get_account_mkdir(t)
        \/ Do_get_account_dump(t)
        \/ Do_get_account_register(t)
        \/ Do_get_account_save_rindex(t)
        \/ Do_get_new_address_generate(t)
        \/ Do_get_new_address_append(t)
        \/ Do_save_account_open(t)
        \/ Do_save_account_mkdir(t)
        \/ Do_save_account_dump(t)
        \/ Do_get_new_address_register(t)
        \/ Do_get_new_address_save_rindex(t)
        \/ Do_get_new_address_return(t)
        \/ Do_get_account_lookup(t)
        \/ Do_list_accounts_walk(t)
        \/ Do_get_keys_for_address_lookup(t)
        \/ Do_reindex_clear(t)
        \/ Do_parse_accounts_walk(t)
        \/ Do_parse_accounts_file(t)
        \/ Do_reindex_save_rindex(t)

Spec == Init /\ [][Next]_vars

\* --------------------------------------------- SeqSpec: one call at a time
\* Thread 1 calls op(arg) and runs it to its return; the caller then takes the
\* outcome, and only then comes the next call.
SeqRun(op, arg, account, res) == Run(Begin(W, 1, op, arg, account, res), 1)

Called == th[1].op # ""

Seq_get_account_address ==
    \E anaccount \in SeqNames :
        LET w == SeqRun("get_account_address", <<anaccount>>, anaccount, <<>>)
        IN /\ ~Called
           /\ w.key.count <= MaxKeys
           /\ Set(w)
           /\ UNCHANGED calls

Seq_get_new_address ==
    \E anaccount \in SeqNames :
        LET w == SeqRun("get_new_address", <<anaccount>>, anaccount, <<>>)
        IN /\ ~Called
           /\ w.key.count <= MaxKeys
           /\ Set(w)
           /\ UNCHANGED calls

Seq_get_addresses_by_account ==
    \E anaccount \in SeqNames :
        LET w == SeqRun("get_addresses_by_account", <<anaccount>>, anaccount, <<>>)
        IN /\ ~Called
           /\ w.key.count <= MaxKeys
           /\ Set(w)
           /\ UNCHANGED calls

Seq_get_account ==
    \E address \in Addresses :
        LET w == SeqRun("get_account", <<address>>, "", <<>>)
        IN /\ ~Called
           /\ w.key.count <= MaxKeys
           /\ Set(w)
           /\ UNCHANGED calls

Seq_get_keys_for_address ==
    \E address \in Addresses :
        LET w == SeqRun("_get_keys_for_address", <<address>>, "", <<>>)
        IN /\ ~Called
           /\ w.key.count <= MaxKeys
           /\ Set(w)
           /\ UNCHANGED calls

Seq_list_accounts ==
    LET w == SeqRun("list_accounts", <<>>, "", <<>>)
    IN /\ ~Called
       /\ w.key.count <= MaxKeys
       /\ Set(w)
       /\ UNCHANGED calls

Seq_reindex ==
    LET w == SeqRun("reindex", <<>>, "", <<>>)
    IN /\ ~Called
       /\ w.key.count <= MaxKeys
       /\ Set(w)
       /\ UNCHANGED calls

Seq_dump_privkey ==
    \E address \in Addresses :
        LET w == SeqRun("dump_privkey", <<address>>, "", <<>>)
        IN /\ ~Called
           /\ w.key.count <= MaxKeys
           /\ Set(w)
           /\ UNCHANGED calls

\* _save_account(account_dict, account) on its own: with the dict of the
\* account as _get_account reads it, or, for a name that is refused, a new one
Seq_save_account ==
    \E account \in SeqNames :
        LET refused == CheckedName[account] # ""
            account_dict == IF refused
                            THEN [encrypted |-> FALSE, addresses |-> <<>>]
                            ELSE load_json(fs, PathsOf[account].get_fname)
        IN /\ ~Called
           /\ IF refused THEN TRUE
              ELSE /\ isfile(fs, PathsOf[account].get_fname)
                   /\ loadable(fs, PathsOf[account].get_fname)
           /\ Set(SeqRun("_save_account", <<account>>, account, <<account_dict>>))
           /\ UNCHANGED calls

\* the caller has the outcome of the call
Seq_outcome ==
    /\ Called
    /\ th' = [th EXCEPT ![1] = Idle]
    /\ UNCHANGED <<fs, address_to_account, key, index, calls>>

SeqNext ==
    \/ Seq_get_account_address
    \/ Seq_get_new_address
    \/ Seq_get_addresses_by_account
    \/ Seq_get_account
    \/ Seq_get_keys_for_address
    \/ Seq_list_accounts
    \/ Seq_reindex
    \/ Seq_dump_privkey
    \/ Seq_save_account
    \/ Seq_outcome

SeqSpec == SeqInit /\ [][SeqNext]_vars

\* ------------------------- EnvSpec: one call at a time, and the environment
\* The wallet is opened on a path that is missing or is an empty directory;
\* between the calls the wallet may be opened again on the directory as it
\* is, a file of the directory may be removed, and the write of rindex.json
\* may fail.  The calls are those of SeqSpec with the account names EnvNames.
EnvNames == {"", "ab", "index"}

\* the call that has returned took an account name of EnvNames, or none
EnvCall ==
    th[1].op \in {"get_account_address", "get_new_address",
                  "get_addresses_by_account", "_save_account"}
        => th[1].arg[1] \in EnvNames

EnvInit ==
    \E verbose \in BOOLEAN, root \in BOOLEAN :
        LET fs0 == [dirs |-> IF root THEN {<<>>} ELSE {}, files |-> [p \in {} |-> <<>>]]
            w0 == [fs |-> fs0, address_to_account |-> EmptyMap, key |-> NoKey,
                   index |-> <<>>, th |-> [t \in Threads |-> Idle]]
            w == Run(Begin(w0, 1, "__init__", <<verbose>>, "", <<>>), 1)
        IN /\ fs = w.fs
           /\ address_to_account = w.address_to_account
           /\ key = w.key
           /\ index = w.index
           /\ th = [t \in Threads |-> Idle]
           /\ calls = 0

\* Wallet(path, verbose) again, on the directory as it is
Seq_open ==
    \E verbose \in BOOLEAN :
        /\ ~Called
        /\ calls < MaxEvents
        /\ calls' = calls + 1
        /\ Set(SeqRun("__init__", <<verbose>>, "", <<>>))

\* get_new_address(anaccount) whose _save_rindex() of line 274 cannot write
\* rindex.json (the disk is full, the file is locked): open raises OSError
Seq_get_new_address_rindex_fails ==
    \E anaccount \in EnvNames :
        LET w == RunTo(Begin(W, 1, "get_new_address", <<anaccount>>, anaccount, <<>>),
                       1, "get_new_address_save_rindex")
        IN /\ ~Called
           /\ w.key.count <= MaxKeys
           /\ w.th[1].pc = "get_new_address_save_rindex"
           /\ calls < MaxEvents
           /\ calls' = calls + 1
           /\ Set(Raise(w, 1, "OSError"))

\* a file other than index.json is removed from the directory by its owner
Env_remove ==
    \E p \in DOMAIN fs.files \ {IndexFname} :
        /\ ~Called
        /\ calls < MaxEvents
        /\ calls' = calls + 1
        /\ fs' = [fs EXCEPT !.files = [q \in DOMAIN fs.files \ {p} |-> fs.files[q]]]
        /\ UNCHANGED <<address_to_account, key, index, th>>

EnvNext ==
    \/ SeqNext /\ EnvCall'
    \/ Seq_open
    \/ Seq_get_new_address_rindex_fails
    \/ Env_remove

EnvSpec == EnvInit /\ [][EnvNext]_vars

\* ================================================================= claims
\* what the claims speak of, read off the state
AccountFilesOnDisk == DOMAIN fs.files \ {IndexFname, RindexFname}

AddressList(p) ==
    [i \in 1..Len(fs.files[p][1].addresses) |-> fs.files[p][1].addresses[i][1]]

AddressesIn(p) == {AddressList(p)[i] : i \in 1..Len(AddressList(p))}

\* the account file the specification gives a name without a slash
FileOf(a) ==
    IF a = "" \/ a = "default" THEN <<"default.json">>
    ELSE <<SubSeq(a, 1, 2), a \o ".json">>

Returned(t, op) == th[t].pc = "idle" /\ th[t].op = op

\* resolve_account(x) called in the current state: the outcome of get_account
Resolve(x) == Run(Begin(W, 1, "get_account", <<x>>, "", <<>>), 1).th[1]

\* a name the naming rule refuses: not empty, and shorter than 2, longer than
\* 128, or with a character outside the base64 alphabet
Refused(a) ==
    /\ a # ""
    /\ \/ Len(a) < 2
       \/ Len(a) > 128
       \/ \E i \in 1..Len(a) : Ch(a, i) \notin B64Chars

\* C1: two threads that have both returned from create_address(a) for the
\* same account a have both succeeded, with two different addresses that are
\* both in the address list of a's file and both resolve to a.  Stated for
\* the accounts that _get_account and _save_account keep in one file.
C1_ConcurrentCreate ==
    \A t1, t2 \in Threads :
        (/\ t1 # t2
         /\ Returned(t1, "get_new_address") /\ Returned(t2, "get_new_address")
         /\ th[t1].arg = th[t2].arg
         /\ th[t1].arg[1] \in {"", "ab"})
        => /\ th[t1].err = "" /\ th[t2].err = ""
           /\ th[t1].ret # th[t2].ret
           /\ \A t \in {t1, t2} :
                /\ th[t].ret[1] \in AddressesIn(FileOf(th[t].arg[1]))
                /\ th[t].ret[1] \in DOMAIN address_to_account
                /\ address_to_account[th[t].ret[1]] = th[t].arg[1]

\* C2: in every state every key of the reverse index is an address in the
\* address list of some account file on disk.
C2_IndexedAddressOnDisk ==
    \A x \in DOMAIN address_to_account :
        \E p \in AccountFilesOnDisk : x \in AddressesIn(p)

\* C3: right after create_address(a) has returned x, resolve_account(x)
\* returns a.
C3_CreateThenResolve ==
    (Returned(1, "get_new_address") /\ th[1].err = "")
    => /\ Resolve(th[1].ret[1]).err = ""
       /\ Resolve(th[1].ret[1]).ret = th[1].arg

C3_Witness ==
    /\ Returned(1, "get_new_address")
    /\ th[1].arg = <<"ab">>
    /\ th[1].err = ""
    /\ Resolve(th[1].ret[1]).ret = <<"ab">>

\* C4: an account operation called with a refused name raises
\* InvalidAccountName and changes neither the files and directories nor the
\* reverse index, in memory or on disk.
C4_RefusedNameNoEffect ==
    [][(/\ ~Called
        /\ Called'
        /\ th'[1].op \in {"get_account_address", "get_new_address",
                          "get_addresses_by_account", "_save_account"}
        /\ Refused(th'[1].arg[1]))
       => /\ th'[1].err = "InvalidAccountName"
          /\ fs' = fs
          /\ address_to_account' = address_to_account]_vars

C4_Witness ==
    /\ Returned(1, "get_new_address")
    /\ th[1].arg = <<"a">>
    /\ th[1].err = "InvalidAccountName"

\* C5: the default account has one file, default.json at the root, whichever
\* of its two names the calls use: no other default.json is created.
C5_OneDefaultFile ==
    \A p \in DOMAIN fs.files : p[Len(p)] = "default.json" => p = <<"default.json">>

\* C6: create_address(a) for a sharded account a with no file yet creates
\* <first 2 chars of a>/<a>.json holding exactly one address, and
\* list_accounts() then includes a.
C6_FirstCreate ==
    [][(/\ ~Called
        /\ Called'
        /\ th'[1].op = "get_new_address"
        /\ th'[1].arg[1] \in {"ab", "index"}
        /\ FileOf(th'[1].arg[1]) \notin DOMAIN fs.files)
       => /\ th'[1].err = ""
          /\ FileOf(th'[1].arg[1]) \in DOMAIN fs'.files
          /\ Len(fs'.files[FileOf(th'[1].arg[1])][1].addresses) = 1
          /\ th'[1].arg[1] \in
                Run(Begin(W', 1, "list_accounts", <<>>, "", <<>>), 1).th[1].ret[1]]_vars

\* C7: no address is in the lists of the files of two different accounts, and
\* none is twice in one list.  Stated for the default account "" and the
\* sharded account "ab", which are two accounts under any reading.
C7_OneOwner ==
    /\ \A p, q \in {FileOf(a) : a \in {"", "ab"}} \cap AccountFilesOnDisk :
            p # q => AddressesIn(p) \cap AddressesIn(q) = {}
    /\ \A p \in AccountFilesOnDisk :
         \A i, j \in 1..Len(AddressList(p)) :
            AddressList(p)[i] = AddressList(p)[j] => i = j

\* C8: right after reindex() the keys of the reverse index are the addresses
\* of all the account files, each mapped to the account of a file that holds it.
C8_ReindexRestores ==
    Returned(1, "reindex")
    => /\ DOMAIN address_to_account = UNION {AddressesIn(p) : p \in AccountFilesOnDisk}
       /\ \A x \in DOMAIN address_to_account :
            \E p \in AccountFilesOnDisk :
                /\ x \in AddressesIn(p)
                /\ p = FileOf(address_to_account[x])

\* C9: right after reindex(), a second reindex() leaves the reverse index and
\* every file, rindex.json among them, as the first left them.
C9_ReindexIdempotent ==
    Returned(1, "reindex")
    => LET w == Run(Begin(W, 1, "reindex", <<>>, "", <<>>), 1)
       IN /\ w.address_to_account = address_to_account
          /\ w.fs = fs

C9_Witness ==
    /\ Returned(1, "reindex")
    /\ \E x \in DOMAIN address_to_account : address_to_account[x] = "ab"
    /\ RindexFname \in DOMAIN fs.files
    /\ fs.files[RindexFname] = <<address_to_account>>

\* C10: two calls of get_default_address(a) that have returned gave the same
\* address, and that address is in the address list of a's file.
C10_DefaultAddressStable ==
    \A t1, t2 \in Threads :
        (/\ Returned(t1, "get_account_address") /\ Returned(t2, "get_account_address")
         /\ th[t1].arg = th[t2].arg
         /\ th[t1].err = "" /\ th[t2].err = "")
        => /\ th[t1].ret = th[t2].ret
           /\ th[t1].ret[1] \in AddressesIn(FileOf(th[t1].arg[1]))

\* the account a name denotes: "default" is a second name of the account ""
Canon(a) == IF a = "default" THEN "" ELSE a

\* C11: when create_address(a) has failed at the write of rindex.json, the new
\* address is in the account file that was saved, and a reindex() run then
\* maps the new address to a.
C11_RecoverableAfterFailure ==
    (Returned(1, "get_new_address") /\ th[1].err = "OSError")
    => LET w == Run(Begin(W, 1, "reindex", <<>>, "", <<>>), 1)
       IN /\ \E p \in AccountFilesOnDisk : key.address \in AddressesIn(p)
          /\ key.address \in DOMAIN w.address_to_account
          /\ Canon(w.address_to_account[key.address]) = Canon(th[1].arg[1])

\* C12: get_keys_for_address(x) returns the entry of x when x is in the
\* reverse index and in the address list of the file of its account, and
\* raises UnknownnAddress, nothing else, in every other case: x not in the
\* index, the file of its account missing, x not in the list of that file.
C12_KeysOrUnknown ==
    [][(/\ ~Called
        /\ Called'
        /\ th'[1].op = "_get_keys_for_address")
       => LET x == th'[1].arg[1]
              p == FileOf(address_to_account[x])
              listed == /\ x \in DOMAIN address_to_account
                        /\ p \in DOMAIN fs.files
                        /\ x \in AddressesIn(p)
          IN IF listed
             THEN /\ th'[1].err = ""
                  /\ th'[1].ret[1][1] = x
                  /\ \E i \in 1..Len(fs.files[p][1].addresses) :
                        fs.files[p][1].addresses[i] = th'[1].ret[1]
             ELSE th'[1].err = "UnknownnAddress"]_vars

\* get_keys_for_address(x) has failed for an x that the index maps to "ab",
\* whose file had been removed: the file is there again, without x
C12_Witness ==
    /\ Returned(1, "_get_keys_for_address")
    /\ th[1].err = "UnknownnAddress"
    /\ th[1].arg[1] \in DOMAIN address_to_account
    /\ address_to_account[th[1].arg[1]] = "ab"
    /\ FileOf("ab") \in DOMAIN fs.files
    /\ th[1].arg[1] \notin AddressesIn(FileOf("ab"))

\* C13: reveal_private_key(x) returns the private key of the entry stored for
\* x: the second component of (address, private_key, public_key).
C13_PrivateKeyRevealed ==
    (Returned(1, "dump_privkey") /\ th[1].err = "")
    => \E p \in AccountFilesOnDisk :
         \E i \in 1..Len(fs.files[p][1].addresses) :
            /\ fs.files[p][1].addresses[i][1] = th[1].arg[1]
            /\ th[1].ret[1] = fs.files[p][1].addresses[i][2]

\* C14: after open(path), whatever verbose is and whether or not the path was
\* there: the root directory exists, the primary index is in memory and in
\* index.json, the reverse index in memory is what rindex.json held (empty
\* when there was none), and every account file and rindex.json entry of
\* before is still there.
C14_OpenCompletes ==
    [][(/\ ~Called
        /\ Called'
        /\ th'[1].op = "__init__")
       => /\ th'[1].err = ""
          /\ <<>> \in fs'.dirs
          /\ index' # <<>>
          /\ IndexFname \in DOMAIN fs'.files
          /\ fs'.files[IndexFname] = index'
          /\ \A p \in AccountFilesOnDisk :
                p \in DOMAIN fs'.files /\ fs'.files[p] = fs.files[p]
          /\ RindexFname \in DOMAIN fs.files
                => /\ RindexFname \in DOMAIN fs'.files
                   /\ fs'.files[RindexFname] = fs.files[RindexFname]
                   /\ address_to_account' = fs.files[RindexFname][1]
          /\ RindexFname \notin DOMAIN fs.files
                => address_to_account' = EmptyMap]_vars

\* C15: an account operation called with a name that has a '/' raises
\* InvalidAccountName, and no file or directory is made or changed.
C15_SlashRejected ==
    [][(/\ ~Called
        /\ Called'
        /\ th'[1].op \in {"get_account_address", "get_new_address",
                          "get_addresses_by_account", "_save_account"}
        /\ \E i \in 1..Len(th'[1].arg[1]) : Ch(th'[1].arg[1], i) = "/")
       => /\ th'[1].err = "InvalidAccountName"
          /\ fs' = fs]_vars

\* the addresses of the account file p of the directory f, in their order
AddressListOf(f, p) ==
    [i \in 1..Len(f.files[p][1].addresses) |-> f.files[p][1].addresses[i][1]]

IsPrefix(s, r) == Len(s) <= Len(r) /\ SubSeq(r, 1, Len(s)) = s

\* C16: address lists only grow at their end: in every step every account
\* file stays, with its list of before as a prefix of its list of after, and
\* no account file has an empty list.
C16_AppendOnly ==
    [][\A p \in AccountFilesOnDisk :
          /\ p \in DOMAIN fs'.files
          /\ IsPrefix(AddressListOf(fs, p), AddressListOf(fs', p))
          /\ AddressListOf(fs', p) # <<>>]_vars

\* thread u is inside reindex(), after line 118 has emptied the mapping
Reindexing(u) ==
    /\ th[u].op = "reindex"
    /\ th[u].pc \in {"_parse_accounts_walk", "_parse_accounts_file", "reindex_save_rindex"}

\* C17: a resolve_account(x) that runs while another thread is inside
\* reindex(), for an x that the reverse index mapped to an account when the
\* reindex started and that is in the file of that account, returns that
\* account.
C17_ReindexSafeForReaders ==
    [][\A t, u \in Threads :
          (/\ t # u
           /\ th[t].pc = "get_account_lookup"
           /\ th'[t].pc = "idle"
           /\ Reindexing(u)
           /\ th[t].arg[1] \in DOMAIN th[u].res[1]
           /\ FileOf(th[u].res[1][th[t].arg[1]]) \in DOMAIN fs.files
           /\ th[t].arg[1] \in AddressesIn(FileOf(th[u].res[1][th[t].arg[1]])))
          => /\ th'[t].err = ""
             /\ th'[t].ret = <<th[u].res[1][th[t].arg[1]]>>]_vars

\* the mapping rindex.json of the directory f holds: none when there is no file
StoredRindex(f) ==
    IF RindexFname \in DOMAIN f.files THEN f.files[RindexFname][1] ELSE EmptyMap

\* C18: a call that starts with rindex.json holding the mapping in memory, and
\* whose write of rindex.json does not fail, ends with rindex.json holding the
\* mapping in memory; and opening the store again then leaves the mapping in
\* memory as it was: no registered address is lost.
C18_RindexFollows ==
    [][(/\ ~Called
        /\ Called'
        /\ th'[1].err # "OSError"
        /\ StoredRindex(fs) = address_to_account)
       => /\ StoredRindex(fs') = address_to_account'
          /\ th'[1].op = "__init__" => address_to_account' = address_to_account]_vars

\* C18 for concurrent calls: when no thread is inside a call, rindex.json holds
\* the mapping in memory
AllIdleRindex ==
    (\A t \in Threads : th[t].pc = "idle") => StoredRindex(fs) = address_to_account

\* get_keys_for_address(x) and addresses_of(a) called in the current state
KeysFor(x) == Run(Begin(W, 1, "_get_keys_for_address", <<x>>, "", <<>>), 1).th[1]

AddressesOf(a) == Run(Begin(W, 1, "get_addresses_by_account", <<a>>, a, <<>>), 1).th[1]

\* C19: right after create_address(a) or get_default_address(a) has returned
\* x, get_keys_for_address(x) returns an entry of address x, and x is in
\* addresses_of(a).
C19_ReturnedAddressFound ==
    (/\ \/ Returned(1, "get_new_address")
        \/ Returned(1, "get_account_address")
     /\ th[1].err = "")
    => /\ KeysFor(th[1].ret[1]).err = ""
       /\ KeysFor(th[1].ret[1]).ret[1][1] = th[1].ret[1]
       /\ AddressesOf(th[1].arg[1]).err = ""
       /\ \E i \in 1..Len(AddressesOf(th[1].arg[1]).ret[1]) :
             AddressesOf(th[1].arg[1]).ret[1][i] = th[1].ret[1]

\* C20: resolve_account, get_keys_for_address, reveal_private_key and
\* list_accounts, returning or raising, leave every file and directory, the
\* reverse index in memory and the Key instance as they were.
C20_LookupsReadOnly ==
    [][(/\ ~Called
        /\ Called'
        /\ th'[1].op \in {"get_account", "_get_keys_for_address", "dump_privkey",
                          "list_accounts"})
       => /\ fs' = fs
          /\ address_to_account' = address_to_account
          /\ key' = key]_vars

====
